---- MODULE Spec2Model ----
(***************************************************************************)
(* Order lifecycle and payment reconciliation of app.py: the orders and    *)
(* order_items tables and the request handlers that write them             *)
(* (order_details, crypto_checkout, api_paypal_orders, api_paypal_capture, *)
(* paypal_webhook, crypto_webhook), each handler one atomic step.          *)
(*                                                                         *)
(* Abstractions: the write-once columns timestamp/created_at and the       *)
(* pass-through birth_* columns are left out of the row; uuid4() is a      *)
(* fresh identifier; datetime('now') is the value of a clock that ticks    *)
(* between requests; HMAC-SHA512 is an injective tag of (key, body).       *)
(* Requests to api_paypal_capture always carry an order_id.                *)
(***************************************************************************)
EXTENDS Integers, Sequences, FiniteSets, TLC

\* ---------------------------------------------------------------- bounds
\* datetime('now') ranges over 0..MaxClock
MaxClock == 1
\* at most MaxItems rows in order_items
MaxItems == 2

\* ------------------------------------------------------------ SQL values
\* SQL NULL / Python None in a TEXT column or a string argument
NullT == "NULL"
\* SQL NULL / Python None in a REAL column, a time column or a number
NullN == -1

\* COALESCE(a, b) on TEXT values
CoalesceT(a, b) == IF a # NullT THEN a ELSE b
\* COALESCE(a, b) on REAL values
CoalesceN(a, b) == IF a # NullN THEN a ELSE b

\* Python truthiness of an optional string: None and "" are falsy
Truthy(s) == s # NullT /\ s # ""

\* ---------------------------------------------------------------- catalog
READINGS ==
  [ natal       |-> [pdf_price |-> 90, video_price |-> 120],
    orientation |-> [pdf_price |-> 70, video_price |-> 90],
    love        |-> [pdf_price |-> 70, video_price |-> 90],
    focus       |-> [pdf_price |-> 60, video_price |-> 80],
    annual      |-> [pdf_price |-> 85, video_price |-> 110],
    horary      |-> [pdf_price |-> 55, video_price |-> 75],
    synastry    |-> [pdf_price |-> 95, video_price |-> 125] ]

\* READINGS.get(key) is not None
InCatalog(key) == key \in DOMAIN READINGS

\* mode in ("pdf", "video")
ValidMode(mode) == mode \in {"pdf", "video"}

\* reading["pdf_price"] if mode == "pdf" else reading["video_price"]
Price(key, mode) ==
  IF mode = "pdf" THEN READINGS[key].pdf_price ELSE READINGS[key].video_price

\* ----------------------------------------------------------- input sets
Oids == {"o1"}
\* the order_id of another customer's order, and the order_ids the tables
\* may hold
OtherOids == {"o2"}
AllOids == Oids \cup OtherOids
\* (reading, mode) arguments a client sends: a catalog pair, a pair outside
\* the catalog, a bad mode, no arguments
Selections ==
  { [reading |-> "natal", mode |-> "pdf"],
    [reading |-> "tarot", mode |-> "pdf"], [reading |-> "natal", mode |-> "audio"],
    [reading |-> NullT, mode |-> NullT] }
Times == 0..MaxClock

\* ------------------------------------------------------------ the store
VARIABLES
  orders,   \* table orders: a function from the order_ids present to rows
  items,    \* table order_items: a set of rows
  now,      \* the clock datetime('now') reads
  env,      \* the process environment (configuration read by the handlers)
  last      \* the last request served: handler, response status, outcome, notification

vars == <<orders, items, now, env, last>>

\* the two tables as one value
Db(o, i) == [orders |-> o, items |-> i]

\* an orders row (columns the lifecycle writes)
Row(name, email, total, pstatus, ppid, status, capt, reading, mode) ==
  [ name |-> name, email |-> email, total_price |-> total,
    payment_status |-> pstatus, completion_status |-> "new",
    paypal_order_id |-> ppid, status |-> status, captured_at |-> capt,
    reading |-> reading, mode |-> mode ]

\* an order_items row
Item(oid, iid, rtype, rmode, price, question) ==
  [ order_id |-> oid, item_id |-> iid, reading_type |-> rtype,
    reading_mode |-> rmode, price |-> price, question |-> question ]

\* str(uuid4()) for an item_id: an identifier no row of order_items has
Uuid4Item(its) ==
  CHOOSE i \in 1..(Cardinality(its) + 1) :
    /\ \A it \in its : it.item_id # i
    /\ \A j \in 1..(i - 1) : \E it \in its : it.item_id = j

\* mutant: INSERT OR REPLACE INTO orders
InsertOrReplaceOrder(os, oid, row) ==
  [k \in DOMAIN os \cup {oid} |-> IF k = oid THEN row ELSE os[k]]

\* INSERT OR IGNORE INTO orders: a row whose order_id exists is left alone
InsertOrIgnoreOrder(os, oid, row) ==
  IF oid \in DOMAIN os THEN os ELSE os @@ (oid :> row)

\* str(uuid4()) for an order_id: an identifier no row of orders has
Uuid4Order(os) ==
  IF \E o \in Oids : o \notin DOMAIN os
  THEN CHOOSE o \in Oids : o \notin DOMAIN os
  ELSE "o-new"

\* INSERT OR IGNORE INTO order_items: a row whose item_id exists, or whose
\* order_id is NULL (NOT NULL constraint), is skipped
InsertOrIgnoreItem(its, it) ==
  IF it.order_id = NullT \/ \E x \in its : x.item_id = it.item_id
  THEN its ELSE its \cup {it}


\* -------------------------------------------------------- notifications
\* what one request did to the notification sink: the notify_order event,
\* the rows appended to orders_events.csv, the chat-webhook delivery
NoNote == [event |-> "none", csv |-> 0, discord |-> "none"]

\* _append_order_csv: one row, or none when the append raises (logged, swallowed)
AppendOrderCsv(sink) == IF sink.csv_ok THEN 1 ELSE 0

\* _send_discord: skipped without DISCORD_WEBHOOK_URL, else one POST
SendDiscord(e, sink) ==
  IF ~e.discord_url THEN "no_url"
  ELSE IF sink.discord_ok THEN "sent" ELSE "failed"

\* mutant: the chat message is sent for every event, toggle or no toggle
NotifyOrderAlwaysChat(event, e, sink) ==
  [ event   |-> event,
    csv     |-> AppendOrderCsv(sink),
    discord |-> SendDiscord(e, sink) ]

\* notify_order(event, ...)
NotifyOrder(event, e, sink) ==
  [ event   |-> event,
    csv     |-> AppendOrderCsv(sink),
    discord |-> IF event = "paid" \/ (event = "created" /\ e.notify_created)
                THEN SendDiscord(e, sink) ELSE "none" ]

\* a handler's result: the committed tables, the response and the notification
Result(db, code, outcome, note) ==
  [db |-> db, code |-> code, outcome |-> outcome, note |-> note]

\* --------------------------------------------------------- transactions
\* mutant: every statement is committed as it runs, an error undoes nothing
RollbackKeepsWrites(committed, working) == working

\* db.rollback(), or the connection closed without db.commit(): the tables
\* are the committed ones again and the transaction's writes are gone
Rollback(committed, working) == committed

\* the tables after a transaction whose statement number fail_at raised:
\* stages[1] is the committed store, stages[k + 1] the connection's view
\* after statement k (db.commit() is the statement after the last write)
Aborted(stages, fail_at) ==
  Rollback(stages[1],
           IF fail_at \in 1..Len(stages) THEN stages[fail_at] ELSE stages[1])

\* ------------------------------------------------------------- handlers
\* (request.values.get(k) or "").strip()
Strip(s) == IF s = " natal " THEN "natal" ELSE s
OrEmpty(s) == IF s = NullT THEN "" ELSE s

\* the two statements of order_details: INSERT the unpaid row, INSERT its
\* line item
CreateStages(db, oid, name, email, reading_key, mode, question) ==
  LET o1 == db.orders @@ (oid :> Row(name, email, NullN, "unpaid", NullT,
                                      "created", NullN, reading_key, mode))
      i2 == db.items \cup {Item(oid, Uuid4Item(db.items), reading_key, mode,
                                NullN, question)}
  IN <<db, Db(o1, db.items), Db(o1, i2)>>

\* mutant: a failed notification raises into the handler's except clause
OrderDetailsNotifyRaises(db, req, oid, e) ==
  LET reading_key == Strip(OrEmpty(req.reading))
      mode == Strip(OrEmpty(req.mode))
      name == Strip(req.name)
      email == Strip(req.email)
      stages == CreateStages(db, oid, name, email, reading_key, mode, req.question)
      note == NotifyOrder("created", e, req.sink)
  IN IF ~InCatalog(reading_key) \/ ~ValidMode(mode)
       THEN Result(db, 302, "invalid_selection", NoNote)
     ELSE IF req.method = "GET"
       THEN Result(db, 200, "form", NoNote)
     ELSE IF name = "" \/ email = ""
       THEN Result(db, 302, "missing_fields", NoNote)
     ELSE IF oid \in DOMAIN db.orders
       THEN Result(Aborted(stages, 1), 302, "create_failed", NoNote)
     ELSE IF req.dbfail
       THEN Result(Aborted(stages, req.fail_at), 302, "create_failed", NoNote)
     ELSE IF note.csv = 0 \/ note.discord = "failed"
       THEN Result(stages[3], 302, "create_failed", note)
     ELSE
       Result(stages[3], 302, "to_checkout", note)

\* /order/details
OrderDetails(db, req, oid, e) ==
  LET reading_key == Strip(OrEmpty(req.reading))
      mode == Strip(OrEmpty(req.mode))
      name == Strip(req.name)
      email == Strip(req.email)
      stages == CreateStages(db, oid, name, email, reading_key, mode, req.question)
  IN IF ~InCatalog(reading_key) \/ ~ValidMode(mode)
       THEN Result(db, 302, "invalid_selection", NoNote)
     ELSE IF req.method = "GET"
       THEN Result(db, 200, "form", NoNote)
     ELSE IF name = "" \/ email = ""
       THEN Result(db, 302, "missing_fields", NoNote)
     ELSE IF oid \in DOMAIN db.orders
       \* the INSERT violates the primary key: an sqlite3 error
       THEN Result(Aborted(stages, 1), 302, "create_failed", NoNote)
     ELSE IF req.dbfail
       \* an sqlite3 error: caught, nothing committed, the connection is closed
       THEN Result(Aborted(stages, req.fail_at), 302, "create_failed", NoNote)
     ELSE
       Result(stages[3], 302, "to_checkout", NotifyOrder("created", e, req.sink))

\* /crypto/checkout
CryptoCheckout(db, req) ==
  IF ~InCatalog(req.reading) \/ ~ValidMode(req.mode) \/ ~Truthy(req.order_id)
    THEN Result(db, 302, "invalid_request", NoNote)
  ELSE IF req.invoice # "ok" \/ req.dbfail
    THEN Result(db, 302, "init_failed", NoNote)
  ELSE
    Result(
      Db(InsertOrIgnoreOrder(db.orders, req.order_id,
           Row(NullT, NullT, Price(req.reading, req.mode), "unpaid", NullT,
               "created", NullN, req.reading, req.mode)),
         db.items),
      302, "to_invoice", NoNote)

\* /api/paypal/orders
ApiPaypalOrders(db, req) ==
  IF ~Truthy(req.order_id) \/ ~InCatalog(req.reading) \/ ~ValidMode(req.mode)
    THEN Result(db, 400, "invalid_parameters", NoNote)
  ELSE IF req.remote # "ok"
    THEN Result(db, 502, "paypal_create_failed", NoNote)
  ELSE IF req.dbfail
    \* "do not fail the PayPal call on DB error"
    THEN Result(db, 201, "created_no_note", NoNote)
  ELSE
    Result(
      Db(InsertOrIgnoreOrder(db.orders, req.order_id,
           Row(NullT, NullT, NullN, "unpaid", req.paypal_id,
               "created", NullN, req.reading, req.mode)),
         db.items),
      201, "created", NoNote)

\* payer name of a capture payload: payer.name, else shipping full_name
PayerName(payer) ==
  IF Truthy(payer.name) THEN payer.name
  ELSE IF Truthy(payer.ship_name) THEN payer.ship_name ELSE NullT

\* mutant: the payer's email and name replace the customer's
CaptureUpdateClobber(row, amount, ppid, reading, mode, payer_email, payer_name, t) ==
  [ row EXCEPT
      !.total_price = CoalesceN(amount, @),
      !.payment_status = "paid",
      !.status = "captured",
      !.captured_at = t,
      !.paypal_order_id = CoalesceT(ppid, @),
      !.reading = CoalesceT(reading, @),
      !.mode = CoalesceT(mode, @),
      !.email = CoalesceT(payer_email, @),
      !.name = CoalesceT(payer_name, @) ]

\* the UPDATE of api_paypal_capture on one row
CaptureUpdate(row, amount, ppid, reading, mode, payer_email, payer_name, t) ==
  [ row EXCEPT
      !.total_price = CoalesceN(amount, @),
      !.payment_status = "paid",
      !.status = "captured",
      !.captured_at = t,
      !.paypal_order_id = CoalesceT(ppid, @),
      !.reading = CoalesceT(reading, @),
      !.mode = CoalesceT(mode, @),
      !.email = CoalesceT(@, payer_email),
      !.name = CoalesceT(@, payer_name) ]

\* the three statements of api_paypal_capture: INSERT OR IGNORE the paid row,
\* UPDATE it, INSERT OR IGNORE one line item
CaptureStages(db, oid, amount, ppid, reading, mode, payer_email, payer_name, t) ==
  LET o1 == InsertOrIgnoreOrder(db.orders, oid,
              Row(NullT, NullT, amount, "paid", ppid, "captured", t, reading, mode))
      o2 == [k \in DOMAIN o1 |->
               IF k = oid
               THEN CaptureUpdate(o1[k], amount, ppid, reading, mode,
                                  payer_email, payer_name, t)
               ELSE o1[k]]
      i3 == InsertOrIgnoreItem(db.items,
              Item(oid, Uuid4Item(db.items), reading, mode, amount, NullT))
  IN <<db, Db(o1, db.items), Db(o2, db.items), Db(o2, i3)>>

\* the tables db.commit() makes visible
CaptureSettle(db, oid, amount, ppid, reading, mode, payer_email, payer_name, t) ==
  CaptureStages(db, oid, amount, ppid, reading, mode, payer_email, payer_name, t)[4]

\* mutant: only a failed call is rejected, any returned status settles
ApiPaypalCaptureAnyStatus(db, req, t, e) ==
  IF req.remote = "error"
    THEN Result(db, 502, "paypal_capture_failed", NoNote)
  ELSE IF req.amount = NullN
    THEN Result(db, 500, "parse_amount_failed", NoNote)
  ELSE IF req.dbfail
    THEN Result(
           Aborted(CaptureStages(db, req.order_id, req.amount, req.paypal_order_id,
                                 req.reading, req.mode, req.payer.email,
                                 PayerName(req.payer), t),
                   req.fail_at),
           500, "db_error", NoNote)
  ELSE
    Result(
      CaptureSettle(db, req.order_id, req.amount, req.paypal_order_id,
                    req.reading, req.mode, req.payer.email, PayerName(req.payer), t),
      200, "paid", NotifyOrder("paid", e, req.sink))

\* /api/paypal/orders/<paypal_order_id>/capture
ApiPaypalCapture(db, req, t, e) ==
  IF req.remote = "error"
    THEN Result(db, 502, "paypal_capture_failed", NoNote)
  ELSE IF req.remote # "COMPLETED"
    THEN Result(db, 400, "not_completed", NoNote)
  ELSE IF req.amount = NullN
    THEN Result(db, 500, "parse_amount_failed", NoNote)
  ELSE IF req.dbfail
    \* except Exception: db.rollback()
    THEN Result(
           Aborted(CaptureStages(db, req.order_id, req.amount, req.paypal_order_id,
                                 req.reading, req.mode, req.payer.email,
                                 PayerName(req.payer), t),
                   req.fail_at),
           500, "db_error", NoNote)
  ELSE
    Result(
      CaptureSettle(db, req.order_id, req.amount, req.paypal_order_id,
                    req.reading, req.mode, req.payer.email, PayerName(req.payer), t),
      200, "paid", NotifyOrder("paid", e, req.sink))

\* mutant: the UPDATE also rewrites the lifecycle stage
WebhookUpdateStage(os, oid) ==
  [k \in DOMAIN os |->
     IF k = oid THEN [os[k] EXCEPT !.payment_status = "paid", !.status = "paid"]
     ELSE os[k]]

\* mutant: the UPDATE has no WHERE clause
WebhookUpdateAll(os, oid) ==
  [k \in DOMAIN os |-> [os[k] EXCEPT !.payment_status = "paid"]]

\* UPDATE orders SET payment_status = 'paid' WHERE order_id = ?
WebhookUpdate(os, oid) ==
  [k \in DOMAIN os |->
     IF k = oid THEN [os[k] EXCEPT !.payment_status = "paid"] ELSE os[k]]

\* mutant: the gate joins its two conditions with "or"
PaypalWebhookUngated(db, req, e) ==
  IF ~e.paypal_webhook_id
    THEN Result(db, 400, "no_webhook_id", NoNote)
  ELSE IF req.verify = "http_error"
    THEN Result(db, 400, "verify_failed", NoNote)
  ELSE IF (req.verify = "SUCCESS" \/ req.event_type = "PAYMENT.CAPTURE.COMPLETED")
          /\ Truthy(req.custom_id)
    THEN Result(Db(WebhookUpdate(db.orders, req.custom_id), db.items),
                200, "applied", NoNote)
  ELSE Result(db, 200, "ignored", NoNote)

\* /webhooks/paypal
PaypalWebhook(db, req, e) ==
  IF ~e.paypal_webhook_id
    THEN Result(db, 400, "no_webhook_id", NoNote)
  ELSE IF req.verify = "http_error"
    THEN Result(db, 400, "verify_failed", NoNote)
  ELSE IF req.verify = "SUCCESS" /\ req.event_type = "PAYMENT.CAPTURE.COMPLETED"
          /\ Truthy(req.custom_id)
    THEN IF req.dbfail
           THEN Result(db, 500, "unhandled_db_error", NoNote)
           ELSE Result(Db(WebhookUpdate(db.orders, req.custom_id), db.items),
                       200, "applied", NoNote)
  ELSE Result(db, 200, "ignored", NoNote)

\* hmac.new(key, body, sha512).hexdigest(): an injective tag of (key, body)
Hmac(key, body) == <<"hmac-sha512", key, body>>
\* a missing x-nowpayments-sig header: ""
NoSig == <<>>

\* mutant: any well-formed digest of the body is accepted, whatever its key
SignatureOkAnyKey(e, req) ==
  \E key \in {e.ipn_secret, "k2"} : Hmac(key, req.body) = req.sig

\* hmac.compare_digest(calc_sig, signature)
SignatureOk(e, req) == Hmac(e.ipn_secret, req.body) = req.sig

\* mutant: every status the IPN reports counts as a settlement
IpnPaidAnyStatus(status) == status # NullT

\* payment_status in ("finished", "confirmed", "paid")
IpnPaid(status) == status \in {"finished", "confirmed", "paid"}

\* mutant: total_price = COALESCE(total_price, ?)
IpnUpdateFillOnly(row, pay_amount, t) ==
  [ row EXCEPT
      !.payment_status = "paid",
      !.status = "captured",
      !.total_price = CoalesceN(@, pay_amount),
      !.captured_at = t ]

\* the UPDATE of crypto_webhook on one row
IpnUpdate(row, pay_amount, t) ==
  [ row EXCEPT
      !.payment_status = "paid",
      !.status = "captured",
      !.total_price = CoalesceN(pay_amount, @),
      !.captured_at = t ]

\* the two statements of crypto_webhook: UPDATE the row, INSERT OR IGNORE a
\* line item SELECTed from the order's own row
IpnStages(db, oid, pay_amount, t) ==
  LET o1 == [k \in DOMAIN db.orders |->
               IF k = oid THEN IpnUpdate(db.orders[k], pay_amount, t)
               ELSE db.orders[k]]
      i2 == IF oid \in DOMAIN o1
            THEN InsertOrIgnoreItem(db.items,
                   Item(oid, Uuid4Item(db.items), o1[oid].reading, o1[oid].mode,
                        o1[oid].total_price, NullT))
            ELSE db.items
  IN <<db, Db(o1, db.items), Db(o1, i2)>>

\* mutant: the line item is INSERTed from the IPN's values, row or no row
IpnSettleValues(db, oid, pay_amount, t) ==
  Db(IpnStages(db, oid, pay_amount, t)[2].orders,
     InsertOrIgnoreItem(db.items,
       Item(oid, Uuid4Item(db.items), NullT, NullT, pay_amount, NullT)))

\* the tables db.commit() makes visible
IpnSettle(db, oid, pay_amount, t) == IpnStages(db, oid, pay_amount, t)[3]

\* /webhooks/crypto
CryptoWebhook(db, req, t, e) ==
  IF ~SignatureOk(e, req)
    THEN Result(db, 403, "invalid_signature", NoNote)
  ELSE IF ~Truthy(req.body.order_id)
    THEN Result(db, 200, "no_order_id", NoNote)
  ELSE IF ~IpnPaid(req.body.payment_status)
    THEN Result(db, 200, "not_paid", NoNote)
  ELSE IF req.dbfail
    \* the error is logged, nothing is committed, the answer is still OK
    THEN Result(
           Aborted(IpnStages(db, req.body.order_id, req.body.pay_amount, t),
                   req.fail_at),
           200, "db_error_swallowed", NoNote)
  ELSE
    Result(IpnSettle(db, req.body.order_id, req.body.pay_amount, t),
           200, "paid", NotifyOrder("paid", e, req.sink))


\* ------------------------------------------------------------- requests
\* the process environment: PAYPAL_WEBHOOK_ID set, DISCORD_NOTIFY_CREATED on,
\* DISCORD_WEBHOOK_URL set, NOWPAYMENTS_IPN_SECRET
Env(wid, created, url) ==
  [ paypal_webhook_id |-> wid, notify_created |-> created,
    discord_url |-> url, ipn_secret |-> "k1" ]
Envs == { Env(TRUE, TRUE, TRUE), Env(TRUE, FALSE, TRUE), Env(FALSE, FALSE, FALSE) }

\* what may go wrong while a request is served: an sqlite3 error in one of
\* its statements, and the outcomes of the sink's I/O
\* fail_at is the number of the statement that raises (0: none)
Fault(dbfail, csv_ok, discord_ok) ==
  [ dbfail |-> dbfail, fail_at |-> IF dbfail THEN 1 ELSE 0,
    sink |-> [csv_ok |-> csv_ok, discord_ok |-> discord_ok] ]
NoFault == Fault(FALSE, TRUE, TRUE)
DbFault == Fault(TRUE, TRUE, TRUE)
DbFaultAt(k) == [DbFault EXCEPT !.fail_at = k]
Faults ==
  { NoFault, DbFault, Fault(FALSE, FALSE, TRUE), Fault(FALSE, TRUE, FALSE) }
\* the faults of a transaction of n statements, db.commit() included
FaultsOf(n) == Faults \cup {DbFaultAt(k) : k \in 1..n}

OrderDetailsRequest(method, reading, mode, name, email, question, f) ==
  [ method |-> method, reading |-> reading, mode |-> mode, name |-> name,
    email |-> email, question |-> question, dbfail |-> f.dbfail,
    fail_at |-> f.fail_at, sink |-> f.sink ]

OrderDetailsRequests ==
  { OrderDetailsRequest("POST", "natal", "pdf", "Ann", "ann@x", q, f) :
      q \in {"q1"}, f \in FaultsOf(3) }
  \cup
  { OrderDetailsRequest("POST", s.reading, s.mode, "Ann", "ann@x", NullT, NoFault) :
      s \in Selections \cup {[reading |-> " natal ", mode |-> "pdf"]} }
  \cup
  { OrderDetailsRequest(m, "natal", "pdf", n, "ann@x", NullT, NoFault) :
      m \in {"GET", "POST"}, n \in {"", "Ann"} }
  \cup
  { OrderDetailsRequest("POST", "natal", "pdf", "Ann", "", NullT, NoFault) }

CryptoCheckoutRequests ==
  { [ order_id |-> o, reading |-> s.reading, mode |-> s.mode,
      invoice |-> "ok", dbfail |-> FALSE ] :
      o \in Oids \cup {NullT, ""}, s \in Selections }
  \cup
  { [ order_id |-> o, reading |-> "natal", mode |-> "pdf",
      invoice |-> i, dbfail |-> d ] :
      o \in Oids, i \in {"ok", "error", "no_invoice_url"}, d \in BOOLEAN }

ApiPaypalOrdersRequests ==
  { [ order_id |-> o, reading |-> s.reading, mode |-> s.mode,
      remote |-> "ok", paypal_id |-> "PP1", dbfail |-> FALSE ] :
      o \in Oids \cup {NullT, ""}, s \in Selections }
  \cup
  { [ order_id |-> o, reading |-> "natal", mode |-> "pdf",
      remote |-> r, paypal_id |-> "PP1", dbfail |-> d ] :
      o \in Oids, r \in {"ok", "error"}, d \in BOOLEAN }

\* payer data of a capture payload
NoPayer == [email |-> NullT, name |-> NullT, ship_name |-> NullT]
Payers ==
  { NoPayer,
    [email |-> "pay@x", name |-> "Pat", ship_name |-> NullT],
    [email |-> "pay@x", name |-> NullT, ship_name |-> "Pat" ] }

\* the capture endpoint does not validate reading and mode
CaptureSelections ==
  { [reading |-> "natal", mode |-> "pdf"], [reading |-> "tarot", mode |-> NullT] }

ApiPaypalCaptureRequest(o, s, remote, amount, payer, f) ==
  [ order_id |-> o, reading |-> s.reading, mode |-> s.mode,
    paypal_order_id |-> "PP1", remote |-> remote, amount |-> amount,
    payer |-> payer, dbfail |-> f.dbfail, fail_at |-> f.fail_at, sink |-> f.sink ]

ApiPaypalCaptureRequests ==
  { ApiPaypalCaptureRequest(o, s, "COMPLETED", 90, p, NoFault) :
      o \in Oids, s \in CaptureSelections, p \in Payers }
  \cup
  { ApiPaypalCaptureRequest(o, [reading |-> "natal", mode |-> "pdf"],
                            "COMPLETED", 90, NoPayer, f) :
      o \in Oids, f \in FaultsOf(4) }
  \cup
  { ApiPaypalCaptureRequest(o, [reading |-> "natal", mode |-> "pdf"],
                            r, a, NoPayer, NoFault) :
      o \in Oids, r \in {"error", "PENDING", "COMPLETED"}, a \in {NullN, 90} }

PaypalWebhookRequests ==
  [ verify : {"SUCCESS", "FAILURE"},
    event_type : {"PAYMENT.CAPTURE.COMPLETED", "PAYMENT.CAPTURE.DENIED", NullT},
    custom_id : Oids \cup {NullT, ""}, dbfail : {FALSE} ]
  \cup
  [ verify : {"SUCCESS", "http_error"}, event_type : {"PAYMENT.CAPTURE.COMPLETED"},
    custom_id : Oids, dbfail : BOOLEAN ]

\* the JSON object of an IPN
IpnBodies ==
  [ payment_status : {"finished", "confirmed", "paid", "waiting"},
    order_id : Oids \cup {NullT}, pay_amount : {NullN, 45} ]

\* signatures a sender may attach to body b that are not its HMAC under the
\* shared secret: one under another key, one of another body, none
BadSignatures(e, b) ==
  { Hmac("k2", b),
    Hmac(e.ipn_secret, [b EXCEPT !.pay_amount = IF @ = NullN THEN 45 ELSE NullN]),
    NoSig }

CryptoWebhookRequest(b, sig, f) ==
  [ body |-> b, sig |-> sig, dbfail |-> f.dbfail, fail_at |-> f.fail_at,
    sink |-> f.sink ]

CryptoWebhookRequests(e) ==
  { CryptoWebhookRequest(b, Hmac(e.ipn_secret, b), NoFault) : b \in IpnBodies }
  \cup
  { CryptoWebhookRequest(b, Hmac(e.ipn_secret, b), f) :
      b \in {x \in IpnBodies : x.payment_status = "finished" /\ x.pay_amount = 45},
      f \in FaultsOf(3) }
  \cup
  UNION { { CryptoWebhookRequest(b, sig, NoFault) : sig \in BadSignatures(e, b) } :
          b \in {x \in IpnBodies : x.payment_status \in {"finished", "waiting"}
                                    /\ x.pay_amount = 45} }

\* ----------------------------------------------------------------- steps
\* the tables after a request, within the model's bounds on the tables
Fits(r) ==
  /\ \A it \in r.db.items : it.item_id <= MaxItems
  /\ DOMAIN r.db.orders \subseteq AllOids

\* the request is served: its writes are committed and its response recorded
Serve(op, r) ==
  /\ Fits(r)
  /\ orders' = r.db.orders
  /\ items' = r.db.items
  /\ last' = [op |-> op, code |-> r.code, outcome |-> r.outcome, note |-> r.note]
  /\ UNCHANGED <<now, env>>

Init ==
  /\ orders = <<>>
  /\ items = {}
  /\ now = 0
  /\ env \in Envs
  /\ last = [op |-> "start", code |-> 0, outcome |-> "none", note |-> NoNote]

Tick ==
  /\ now < MaxClock
  /\ now' = now + 1
  /\ UNCHANGED <<orders, items, env, last>>

\* each handler serving one request of a set of requests
order_details_of(requests) ==
  \E req \in requests :
    Serve("order_details",
          OrderDetails(Db(orders, items), req, Uuid4Order(orders), env))

crypto_checkout_of(requests) ==
  \E req \in requests :
    Serve("crypto_checkout", CryptoCheckout(Db(orders, items), req))

api_paypal_orders_of(requests) ==
  \E req \in requests :
    Serve("api_paypal_orders", ApiPaypalOrders(Db(orders, items), req))

api_paypal_capture_of(requests) ==
  \E req \in requests :
    Serve("api_paypal_capture", ApiPaypalCapture(Db(orders, items), req, now, env))

paypal_webhook_of(requests) ==
  \E req \in requests :
    Serve("paypal_webhook", PaypalWebhook(Db(orders, items), req, env))

crypto_webhook_of(requests) ==
  \E req \in requests :
    Serve("crypto_webhook", CryptoWebhook(Db(orders, items), req, now, env))

order_details == order_details_of(OrderDetailsRequests)

crypto_checkout == crypto_checkout_of(CryptoCheckoutRequests)

api_paypal_orders == api_paypal_orders_of(ApiPaypalOrdersRequests)

api_paypal_capture == api_paypal_capture_of(ApiPaypalCaptureRequests)

paypal_webhook == paypal_webhook_of(PaypalWebhookRequests)

crypto_webhook == crypto_webhook_of(CryptoWebhookRequests(env))

Next ==
  \/ Tick
  \/ order_details
  \/ crypto_checkout
  \/ api_paypal_orders
  \/ api_paypal_capture
  \/ paypal_webhook
  \/ crypto_webhook

Spec == Init /\ [][Next]_vars


\* ------------------------------------------------------------ properties
\* the committed tables of the current state
Store == Db(orders, items)

Paid(o) == o \in DOMAIN orders /\ orders[o].payment_status = "paid"

\* C1: once an order's payment_status is 'paid', no step of any handler
\* sets it back to 'unpaid' (or removes the row)
C1_PaidNeverReverts ==
  [][\A o \in DOMAIN orders :
       orders[o].payment_status = "paid"
         => o \in DOMAIN orders' /\ orders'[o].payment_status = "paid"]_vars

\* a create (crypto_checkout) was served for an order that was already paid
C1_Witness ==
  /\ last.op = "crypto_checkout" /\ last.outcome = "to_invoice"
  /\ \E o \in DOMAIN orders : orders[o].payment_status = "paid"

\* C2: once an order's captured_at is set, no later write clears it or
\* replaces it with a different value
C2_CapturedAtWriteOnce ==
  [][\A o \in DOMAIN orders :
       orders[o].captured_at # NullN
         => o \in DOMAIN orders' /\ orders'[o].captured_at = orders[o].captured_at]_vars

\* C3: in every reachable state an order with payment_status 'paid' has
\* status 'captured' and a captured_at
C3_PaidImpliesCaptured ==
  \A o \in DOMAIN orders :
    orders[o].payment_status = "paid"
      => orders[o].status = "captured" /\ orders[o].captured_at # NullN

\* the capture calls that reach the settlement statements
CompletedCaptures ==
  { req \in ApiPaypalCaptureRequests :
      req.remote = "COMPLETED" /\ req.amount # NullN /\ ~req.dbfail }

\* C4: from any store state, the capture settlement applied twice with the
\* same arguments leaves the same order row as applied once
C4_CaptureSettleIdempotent ==
  \A req \in CompletedCaptures : \A t1, t2 \in Times :
    t1 <= t2 =>
      LET once == ApiPaypalCapture(Store, req, t1, env).db
          twice == ApiPaypalCapture(once, req, t2, env).db
      IN twice.orders[req.order_id] = once.orders[req.order_id]

\* a capture call repeating the one that settled order o
DuplicateCaptures(o) ==
  { req \in CompletedCaptures :
      /\ req.order_id = o
      /\ req.amount = orders[o].total_price
      /\ req.reading = orders[o].reading /\ req.mode = orders[o].mode }

\* the correctly signed IPNs with a paid status for order o
PaidIpns(o) ==
  { req \in CryptoWebhookRequests(env) :
      /\ req.sig = Hmac(env.ipn_secret, req.body)
      /\ req.body.order_id = o
      /\ req.body.payment_status \in {"finished", "confirmed", "paid"}
      /\ ~req.dbfail }

\* the verified completed-capture webhooks for order o
CompletedWebhooks(o) ==
  { req \in PaypalWebhookRequests :
      /\ req.verify = "SUCCESS"
      /\ req.event_type = "PAYMENT.CAPTURE.COMPLETED"
      /\ req.custom_id = o /\ ~req.dbfail }

\* C5: once an order is paid, a duplicate capture call, an IPN or a PayPal
\* webhook for it changes neither its row nor order_items
C5_ReplayIsNoOp ==
  \A o \in DOMAIN orders :
    orders[o].payment_status = "paid" =>
      /\ \A req \in DuplicateCaptures(o) :
           ApiPaypalCapture(Store, req, now, env).db = Store
      /\ \A req \in PaidIpns(o) :
           CryptoWebhook(Store, req, now, env).db = Store
      /\ \A req \in CompletedWebhooks(o) :
           PaypalWebhook(Store, req, env).db = Store

\* C6: a verified PAYMENT.CAPTURE.COMPLETED webhook for an order that is
\* already captured, delivered once and again, leaves the order row as it
\* was and inserts no order_items row
C6_WebhookOnCapturedIsNoOp ==
  \A o \in DOMAIN orders :
    orders[o].status = "captured" =>
      \A req \in CompletedWebhooks(o) :
        LET first == PaypalWebhook(Store, req, env).db
            second == PaypalWebhook(first, req, env).db
        IN first = Store /\ second = Store

\* the webhook was applied to an order a settlement had captured
C6_Witness ==
  /\ last.op = "paypal_webhook" /\ last.outcome = "applied"
  /\ \E o \in DOMAIN orders : orders[o].status = "captured"

\* the create calls that reach their INSERT OR IGNORE, for order o
CryptoCreates(o) ==
  { req \in CryptoCheckoutRequests :
      /\ req.order_id = o /\ InCatalog(req.reading) /\ ValidMode(req.mode)
      /\ req.invoice = "ok" /\ ~req.dbfail }
PaypalCreates(o) ==
  { req \in ApiPaypalOrdersRequests :
      /\ req.order_id = o /\ InCatalog(req.reading) /\ ValidMode(req.mode)
      /\ req.remote = "ok" /\ ~req.dbfail }

\* C7: for one order_id, a create followed by a settlement leaves the same
\* store as the settlement followed by the create attempt
C7_CreateSettleCommute ==
  \A o \in Oids :
    /\ \A c \in CryptoCreates(o) : \A s \in PaidIpns(o) :
         CryptoWebhook(CryptoCheckout(Store, c).db, s, now, env).db
           = CryptoCheckout(CryptoWebhook(Store, s, now, env).db, c).db
    /\ \A c \in PaypalCreates(o) :
         \A s \in {r \in CompletedCaptures : r.order_id = o} :
           ApiPaypalCapture(ApiPaypalOrders(Store, c).db, s, now, env).db
             = ApiPaypalOrders(ApiPaypalCapture(Store, s, now, env).db, c).db

\* the three settlement triggers as steps on the tables
ByCapture(db, req, t) == ApiPaypalCapture(db, req, t, env).db
ByWebhook(db, req) == PaypalWebhook(db, req, env).db
ByIpn(db, req, t) == CryptoWebhook(db, req, t, env).db

\* the order row of o in db, NullT when there is none
RowOf(db, o) == IF o \in DOMAIN db.orders THEN db.orders[o] ELSE NullT

\* C8: for one order_id, the capture call, the PayPal webhook and the crypto
\* IPN of one payment (the IPN reports no other amount), served at times
\* t1 <= t2 <= t3 in any of their six orders, leave the same order row
C8_ArrivalOrderConverges ==
  \A o \in Oids : \A t1, t2, t3 \in Times :
    (t1 <= t2 /\ t2 <= t3) =>
      \A c \in {r \in CompletedCaptures : r.order_id = o} :
      \A w \in CompletedWebhooks(o) :
      \A i \in {r \in PaidIpns(o) : r.body.pay_amount = NullN} :
        LET cwi == ByIpn(ByWebhook(ByCapture(Store, c, t1), w), i, t3)
            ciw == ByWebhook(ByIpn(ByCapture(Store, c, t1), i, t2), w)
            wci == ByIpn(ByCapture(ByWebhook(Store, w), c, t2), i, t3)
            wic == ByCapture(ByIpn(ByWebhook(Store, w), i, t2), c, t3)
            icw == ByWebhook(ByCapture(ByIpn(Store, i, t1), c, t2), w)
            iwc == ByCapture(ByWebhook(ByIpn(Store, i, t1), w), c, t3)
        IN \A x \in {ciw, wci, wic, icw, iwc} : RowOf(x, o) = RowOf(cwi, o)

\* C9: a crypto IPN whose signature header is not the HMAC of its body under
\* the shared secret is answered 403 and leaves orders and order_items as
\* they were, whatever its payload
C9_BadSignatureRejected ==
  \A req \in CryptoWebhookRequests(env) :
    req.sig # Hmac(env.ipn_secret, req.body) =>
      LET r == CryptoWebhook(Store, req, now, env)
      IN r.code = 403 /\ r.db = Store

\* an IPN was rejected while an unpaid order it could have settled exists
C9_Witness ==
  /\ last.op = "crypto_webhook" /\ last.code = 403
  /\ \E o \in DOMAIN orders : orders[o].payment_status = "unpaid"

\* C10: paypal_webhook leaves the store unchanged unless the verification
\* result is SUCCESS, the event_type is PAYMENT.CAPTURE.COMPLETED and
\* resource.custom_id is present
C10_WebhookGate ==
  \A req \in PaypalWebhookRequests :
    ~( /\ req.verify = "SUCCESS"
       /\ req.event_type = "PAYMENT.CAPTURE.COMPLETED"
       /\ req.custom_id # NullT /\ req.custom_id # "" )
      => PaypalWebhook(Store, req, env).db = Store

\* a webhook was acknowledged without being applied while an unpaid order exists
C10_Witness ==
  /\ last.op = "paypal_webhook" /\ last.outcome = "ignored"
  /\ \E o \in DOMAIN orders : orders[o].payment_status = "unpaid"

\* ------------------------------------------------- accepted requests
\* The requests that pass validation and authentication and whose remote
\* call succeeds: the ones that reach a handler's write, with the faults a
\* write and its notification can meet.

\* the creates that reach the INSERTs of order_details
AcceptedOrderDetails ==
  { req \in OrderDetailsRequests :
      /\ req.method = "POST"
      /\ InCatalog(Strip(OrEmpty(req.reading))) /\ ValidMode(Strip(OrEmpty(req.mode)))
      /\ Strip(req.name) # "" /\ Strip(req.email) # "" }

\* the signed IPNs that reach the settlement statements, failing or not
SettlingIpns ==
  { req \in CryptoWebhookRequests(env) :
      /\ req.sig = Hmac(env.ipn_secret, req.body)
      /\ Truthy(req.body.order_id) /\ IpnPaid(req.body.payment_status) }

\* the capture calls that reach the settlement statements, failing or not
SettlingCaptures ==
  { req \in ApiPaypalCaptureRequests :
      req.remote = "COMPLETED" /\ req.amount # NullN }

NextAccepted ==
  \/ Tick
  \/ order_details_of(AcceptedOrderDetails)
  \/ crypto_checkout_of(UNION {CryptoCreates(o) : o \in Oids})
  \/ api_paypal_orders_of(UNION {PaypalCreates(o) : o \in Oids})
  \/ api_paypal_capture_of(SettlingCaptures)
  \/ paypal_webhook_of(UNION {CompletedWebhooks(o) : o \in Oids})
  \/ crypto_webhook_of(SettlingIpns)

SpecAccepted == Init /\ [][NextAccepted]_vars

\* the PayPal webhooks whose verification result is not SUCCESS
UnverifiedWebhooks == { req \in PaypalWebhookRequests : req.verify # "SUCCESS" }

\* C11: a webhook request that fails its authenticity check (an IPN whose
\* signature is not the HMAC of its body, a PayPal webhook whose verification
\* result is not SUCCESS) is answered with a non-2xx status and changes nothing
C11_FailedAuthRejected ==
  /\ \A req \in CryptoWebhookRequests(env) :
       req.sig # Hmac(env.ipn_secret, req.body) =>
         LET r == CryptoWebhook(Store, req, now, env)
         IN r.code \notin 200..299 /\ r.db = Store
  /\ \A req \in UnverifiedWebhooks :
       LET r == PaypalWebhook(Store, req, env)
       IN r.code \notin 200..299 /\ r.db = Store

\* C12: a capture call whose remote call fails or reports a status other
\* than COMPLETED is answered with an error status, changes no row and sends
\* no 'paid' notification; a create whose remote intent creation fails
\* inserts no order row
C12_GatewayErrorKeepsState ==
  /\ \A req \in ApiPaypalCaptureRequests :
       req.remote # "COMPLETED" =>
         LET r == ApiPaypalCapture(Store, req, now, env)
         IN r.code >= 400 /\ r.db = Store /\ r.note.event # "paid"
  /\ \A req \in ApiPaypalOrdersRequests :
       req.remote # "ok" =>
         LET r == ApiPaypalOrders(Store, req)
         IN r.code >= 400 /\ r.db.orders = Store.orders
  /\ \A req \in CryptoCheckoutRequests :
       req.invoice # "ok" => CryptoCheckout(Store, req).db.orders = Store.orders

\* a capture call was refused for its remote status while an unpaid order waits
C12_Witness ==
  /\ last.op = "api_paypal_capture"
  /\ last.outcome \in {"paypal_capture_failed", "not_completed"}
  /\ \E o \in DOMAIN orders : orders[o].payment_status = "unpaid"

\* C13: after a settlement handler runs on an existing order, email (name) is
\* the previous value when that was non-null, and the payer-reported value
\* only when it was null
C13_SettlementKeepsCustomer ==
  \A o \in DOMAIN orders :
    /\ \A req \in {c \in CompletedCaptures : c.order_id = o} :
         LET row == ApiPaypalCapture(Store, req, now, env).db.orders[o]
         IN /\ row.email = IF orders[o].email # NullT THEN orders[o].email
                           ELSE req.payer.email
            /\ row.name = IF orders[o].name # NullT THEN orders[o].name
                          ELSE PayerName(req.payer)
    /\ \A req \in PaidIpns(o) :
         LET row == CryptoWebhook(Store, req, now, env).db.orders[o]
         IN row.email = orders[o].email /\ row.name = orders[o].name
    /\ \A req \in CompletedWebhooks(o) :
         LET row == PaypalWebhook(Store, req, env).db.orders[o]
         IN row.email = orders[o].email /\ row.name = orders[o].name

\* a capture settled an order that carries the customer's own name and email
C13_Witness ==
  /\ last.op = "api_paypal_capture" /\ last.outcome = "paid"
  /\ \E o \in DOMAIN orders :
       /\ orders[o].email = "ann@x" /\ orders[o].name = "Ann"
       /\ orders[o].payment_status = "paid"

\* C14: after a settlement update of an existing order, total_price is the
\* incoming amount when that is non-null and the previous total_price when
\* it is null, on the capture path and on the IPN path
C14_TotalPriceMerge ==
  \A o \in DOMAIN orders :
    /\ \A req \in {c \in CompletedCaptures : c.order_id = o} :
         ApiPaypalCapture(Store, req, now, env).db.orders[o].total_price
           = IF req.amount # NullN THEN req.amount ELSE orders[o].total_price
    /\ \A req \in PaidIpns(o) :
         CryptoWebhook(Store, req, now, env).db.orders[o].total_price
           = IF req.body.pay_amount # NullN THEN req.body.pay_amount
             ELSE orders[o].total_price

\* an IPN settled an order and its total_price is not the IPN's amount: the
\* IPN carried none and the earlier price was kept
C14_Witness ==
  /\ last.op = "crypto_webhook" /\ last.outcome = "paid"
  /\ \E o \in DOMAIN orders : orders[o].total_price = 90

\* the rows a settlement handler leaves for existing order o
SettledRows(o) ==
  { ApiPaypalCapture(Store, req, now, env).db.orders[o] :
      req \in {c \in CompletedCaptures : c.order_id = o} }
  \cup { CryptoWebhook(Store, req, now, env).db.orders[o] : req \in PaidIpns(o) }
  \cup { PaypalWebhook(Store, req, env).db.orders[o] : req \in CompletedWebhooks(o) }

\* C15: no settlement handler changes total_price, email or name of an
\* order in which that field is already non-null
C15_FillOnlyIfNull ==
  \A o \in DOMAIN orders : \A row \in SettledRows(o) :
    /\ orders[o].total_price # NullN => row.total_price = orders[o].total_price
    /\ orders[o].email # NullT => row.email = orders[o].email
    /\ orders[o].name # NullT => row.name = orders[o].name

\* the order row of o carries the settlement written at time t
SettledAt(db, o, t) ==
  /\ o \in DOMAIN db.orders
  /\ db.orders[o].payment_status = "paid" /\ db.orders[o].status = "captured"
  /\ db.orders[o].captured_at = t

C17_DbErrorIs500 ==
  /\ \A req \in SettlingCaptures :
       req.dbfail =>
         LET r == ApiPaypalCapture(Store, req, now, env)
         IN r.code \in 500..599 /\ r.db = Store
  /\ \A req \in SettlingIpns :
       req.dbfail =>
         LET r == CryptoWebhook(Store, req, now, env)
         IN r.code \in 500..599 /\ r.db = Store

\* the outcomes of the sink's I/O in which the append or the delivery fails
FailingSinks == [csv_ok : BOOLEAN, discord_ok : BOOLEAN] \ {NoFault.sink}

\* two results answer alike and commit alike
SameAnswer(a, b) == a.db = b.db /\ a.code = b.code /\ a.outcome = b.outcome

\* C18: when the chat-webhook delivery or the event-log append fails during
\* a create or a settlement, the handler commits the same tables and gives
\* the same response as when the notification succeeds
C18_NotificationFailureAbsorbed ==
  /\ \A req \in {x \in AcceptedOrderDetails : x.sink = NoFault.sink} :
       LET ok == OrderDetails(Store, req, Uuid4Order(orders), env)
       IN \A sink \in FailingSinks :
            SameAnswer(OrderDetails(Store, [req EXCEPT !.sink = sink],
                                    Uuid4Order(orders), env), ok)
  /\ \A req \in {x \in SettlingCaptures : x.sink = NoFault.sink} :
       LET ok == ApiPaypalCapture(Store, req, now, env)
       IN \A sink \in FailingSinks :
            SameAnswer(ApiPaypalCapture(Store, [req EXCEPT !.sink = sink], now, env), ok)
  /\ \A req \in {x \in SettlingIpns : x.sink = NoFault.sink} :
       LET ok == CryptoWebhook(Store, req, now, env)
       IN \A sink \in FailingSinks :
            SameAnswer(CryptoWebhook(Store, [req EXCEPT !.sink = sink], now, env), ok)

\* a create whose notification was not delivered went on to checkout and its
\* order is in the table
C18_Witness ==
  /\ last.op = "order_details" /\ last.outcome = "to_checkout"
  /\ (last.note.discord = "failed" \/ last.note.csv = 0)
  /\ \E o \in DOMAIN orders : orders[o].name = "Ann"

\* C19: every order_items row has the order_id of an existing orders row
C19_ItemsReferenceOrders ==
  \A it \in items : it.order_id \in DOMAIN orders

\* a settlement was served for an order_id that has no row, and wrote no item
C19_Witness ==
  /\ last.op = "crypto_webhook" /\ last.outcome = "paid"
  /\ orders = <<>> /\ items = {}

\* C20: a settlement (completed capture, signed IPN with a paid status) for
\* an order_id that has no row inserts a row that is paid at once
C20_SettleBeforeCreate ==
  \A o \in Oids \ DOMAIN orders :
    /\ \A req \in {c \in CompletedCaptures : c.order_id = o} :
         SettledAt(ApiPaypalCapture(Store, req, now, env).db, o, now)
    /\ \A req \in PaidIpns(o) :
         SettledAt(CryptoWebhook(Store, req, now, env).db, o, now)

\* the order_items rows of order o in db
ItemsOf(db, o) == { it \in db.items : it.order_id = o }

\* C21: a correctly signed IPN with payment_status 'finished' for an
\* order_id that has no row is served without an error and leaves either no
\* orders and no order_items row for that order_id or a complete order row,
\* and never an order_items row without its order
C21_IpnForUnknownOrder ==
  \A o \in Oids \ DOMAIN orders :
    \A req \in {x \in PaidIpns(o) : x.body.payment_status = "finished"} :
      LET r == CryptoWebhook(Store, req, now, env)
      IN /\ r.code = 200 /\ r.outcome = "paid"
         /\ \/ o \notin DOMAIN r.db.orders /\ ItemsOf(r.db, o) = {}
            \/ SettledAt(r.db, o, now)
         /\ \A it \in r.db.items : it.order_id \in DOMAIN r.db.orders

\* an IPN was served and answered 200 while no order has a row or an item
C21_Witness ==
  /\ last.op = "crypto_webhook" /\ last.code = 200 /\ last.note.event = "paid"
  /\ DOMAIN orders \cap Oids = {} /\ \A o \in Oids : ItemsOf(Store, o) = {}

\* the create and the capture of scenario A
ScenarioACreate ==
  OrderDetailsRequest("POST", "natal", "pdf", "Ann", "ann@x", "q1", NoFault)
ScenarioACapture(o) ==
  ApiPaypalCaptureRequest(o, [reading |-> "natal", mode |-> "pdf"],
                          "COMPLETED", 90, NoPayer, NoFault)

\* C22: order_details for natal/pdf followed by api_paypal_capture with
\* status COMPLETED and amount 90 ends with the order paid, captured, at
\* total_price 90 with captured_at set, and with one order_items row of the
\* order, carrying reading_type natal and reading_mode pdf
C22_ScenarioA ==
  LET o == Uuid4Order(orders)
      created == OrderDetails(Store, ScenarioACreate, o, env).db
      final == ApiPaypalCapture(created, ScenarioACapture(o), now, env).db
  IN /\ SettledAt(final, o, now)
     /\ final.orders[o].total_price = 90
     /\ Cardinality(ItemsOf(final, o)) = 1
     /\ \A it \in ItemsOf(final, o) :
          it.reading_type = "natal" /\ it.reading_mode = "pdf"

\* C23: no orders row and no order_items row carries a reading that is not
\* a catalog key or a mode that is not pdf or video, and order_details
\* writes nothing when name or email is missing
C23_ValidationNeverPersisted ==
  /\ \A o \in DOMAIN orders :
       InCatalog(orders[o].reading) /\ ValidMode(orders[o].mode)
  /\ \A it \in items :
       InCatalog(it.reading_type) /\ ValidMode(it.reading_mode)
  /\ \A req \in OrderDetailsRequests :
       (Strip(req.name) = "" \/ Strip(req.email) = "")
         => OrderDetails(Store, req, Uuid4Order(orders), env).db = Store

\* ----------------------------------------------------------- two orders
\* Requests for two order_ids, one reading and one amount each, that
\* succeed, are refused by the gateway or fail in the database.
NatalPdf == [reading |-> "natal", mode |-> "pdf"]

IsolationCheckouts ==
  { [ order_id |-> o, reading |-> "natal", mode |-> "pdf",
      invoice |-> i, dbfail |-> FALSE ] : o \in AllOids, i \in {"ok", "error"} }

IsolationPaypalOrders ==
  { [ order_id |-> o, reading |-> "natal", mode |-> "pdf",
      remote |-> r, paypal_id |-> "PP1", dbfail |-> FALSE ] :
      o \in AllOids, r \in {"ok", "error"} }

IsolationCaptures ==
  { ApiPaypalCaptureRequest(o, NatalPdf, "COMPLETED", 90, NoPayer, f) :
      o \in AllOids, f \in {NoFault, DbFaultAt(3)} }
  \cup { ApiPaypalCaptureRequest(o, NatalPdf, "PENDING", 90, NoPayer, NoFault) :
           o \in AllOids }

IsolationWebhooks ==
  [ verify : {"SUCCESS"}, event_type : {"PAYMENT.CAPTURE.COMPLETED"},
    custom_id : AllOids, dbfail : BOOLEAN ]

IsolationIpns(e) ==
  { CryptoWebhookRequest(b, Hmac(e.ipn_secret, b), f) :
      b \in [payment_status : {"finished"}, order_id : AllOids, pay_amount : {45}],
      f \in {NoFault, DbFaultAt(2)} }

NextIsolation ==
  \/ Tick
  \/ order_details_of({ScenarioACreate})
  \/ crypto_checkout_of(IsolationCheckouts)
  \/ api_paypal_orders_of(IsolationPaypalOrders)
  \/ api_paypal_capture_of(IsolationCaptures)
  \/ paypal_webhook_of(IsolationWebhooks)
  \/ crypto_webhook_of(IsolationIpns(env))

SpecIsolation == Init /\ [][NextIsolation]_vars

\* the orders row and the order_items rows of o are in db2 as in db1
Untouched(db2, db1, o) ==
  RowOf(db2, o) = RowOf(db1, o) /\ ItemsOf(db2, o) = ItemsOf(db1, o)

\* C24: an operation carried out for one order_id, whether it succeeds or
\* fails, leaves the orders row and the order_items rows of every other
\* order_id as they were
C24_CrossOrderIsolation ==
  \A o \in AllOids :
    /\ Uuid4Order(orders) # o =>
         Untouched(OrderDetails(Store, ScenarioACreate, Uuid4Order(orders), env).db,
                   Store, o)
    /\ \A req \in IsolationCheckouts :
         req.order_id # o => Untouched(CryptoCheckout(Store, req).db, Store, o)
    /\ \A req \in IsolationPaypalOrders :
         req.order_id # o => Untouched(ApiPaypalOrders(Store, req).db, Store, o)
    /\ \A req \in IsolationCaptures :
         req.order_id # o =>
           Untouched(ApiPaypalCapture(Store, req, now, env).db, Store, o)
    /\ \A req \in IsolationWebhooks :
         req.custom_id # o => Untouched(PaypalWebhook(Store, req, env).db, Store, o)
    /\ \A req \in IsolationIpns(env) :
         req.body.order_id # o =>
           Untouched(CryptoWebhook(Store, req, now, env).db, Store, o)

\* an IPN settled one of two orders and the other is still unpaid
C24_Witness ==
  /\ last.op = "crypto_webhook" /\ last.outcome = "paid"
  /\ AllOids \subseteq DOMAIN orders
  /\ \E a, b \in AllOids :
       orders[a].payment_status = "paid" /\ orders[b].payment_status = "unpaid"

\* the events notify_order is called with
Events == {"created", "paid"}

\* the chat rule of notify_order: a delivery is attempted (_send_discord is
\* called) exactly for 'paid', and for 'created' with the toggle on
ChatRule(note) ==
  (note.discord # "none")
    <=> (note.event = "paid" \/ (note.event = "created" /\ env.notify_created))

\* C25 as stated: every notify_order call appends exactly one row to the
\* event log and attempts a chat delivery exactly under the chat rule
C25_OneRowAndChatRule ==
  \A event \in Events : \A sink \in [csv_ok : BOOLEAN, discord_ok : BOOLEAN] :
    LET note == NotifyOrder(event, env, sink)
    IN note.csv = 1 /\ ChatRule(note)

\* C25 amended: every notify_order call appends one row to the event log
\* unless the append itself raises, in which case it appends none (the
\* error is logged and swallowed); a chat delivery is attempted exactly
\* under the chat rule, so a 'created' event with the toggle off sends none
C25_OneRowUnlessAppendFails ==
  /\ \A event \in Events : \A sink \in [csv_ok : BOOLEAN, discord_ok : BOOLEAN] :
       LET note == NotifyOrder(event, env, sink)
       IN /\ note.csv = (IF sink.csv_ok THEN 1 ELSE 0)
          /\ ChatRule(note)
  /\ last.note.event \in Events => last.note.csv \in {0, 1} /\ ChatRule(last.note)

\* an order was created with the toggle off and a chat URL configured: one
\* row was appended and no chat message sent
C25_Witness ==
  /\ last.op = "order_details" /\ last.note.event = "created"
  /\ ~env.notify_created /\ env.discord_url
  /\ last.note.csv = 1 /\ last.note.discord = "none"

\* C26: whenever api_paypal_capture or crypto_webhook emits a 'paid'
\* notification for an order_id, the committed store holds a row for it with
\* payment_status 'paid'
C26_PaidNoteHasPaidRow ==
  /\ \A req \in SettlingCaptures :
       LET r == ApiPaypalCapture(Store, req, now, env)
       IN r.note.event = "paid" =>
            /\ req.order_id \in DOMAIN r.db.orders
            /\ r.db.orders[req.order_id].payment_status = "paid"
  /\ \A req \in SettlingIpns :
       LET r == CryptoWebhook(Store, req, now, env)
       IN r.note.event = "paid" =>
            /\ req.body.order_id \in DOMAIN r.db.orders
            /\ r.db.orders[req.body.order_id].payment_status = "paid"

\* the correctly signed IPNs that report no settlement or name no order
UnsettlingIpns ==
  { req \in CryptoWebhookRequests(env) :
      /\ req.sig = Hmac(env.ipn_secret, req.body)
      /\ \/ req.body.payment_status \notin {"finished", "confirmed", "paid"}
         \/ req.body.order_id = NullT \/ req.body.order_id = "" }

\* C27: a correctly signed IPN whose payment_status is not finished,
\* confirmed or paid, or that carries no order_id, changes no row, emits no
\* 'paid' notification and is answered 200
C27_IpnStatusGate ==
  \A req \in UnsettlingIpns :
    LET r == CryptoWebhook(Store, req, now, env)
    IN r.code = 200 /\ r.db = Store /\ r.note.event # "paid"

\* an IPN with another status was acknowledged while an unpaid order waits
C27_Witness ==
  /\ last.op = "crypto_webhook" /\ last.outcome = "not_paid" /\ last.code = 200
  /\ \E o \in DOMAIN orders : orders[o].payment_status = "unpaid"

\* the row is the one a create writes
CreatedRow(db, o) ==
  /\ o \in DOMAIN db.orders
  /\ db.orders[o].status = "created" /\ db.orders[o].payment_status = "unpaid"

\* C28: a create for a new order_id writes status 'created' and
\* payment_status 'unpaid'; a create attempt of api_paypal_orders or
\* crypto_checkout for an order_id that has a row leaves the tables as they
\* were
C28_CreateWritesCreatedOrNothing ==
  /\ \A o \in Oids :
       /\ \A req \in CryptoCreates(o) :
            LET r == CryptoCheckout(Store, req)
            IN IF o \in DOMAIN orders THEN r.db = Store ELSE CreatedRow(r.db, o)
       /\ \A req \in PaypalCreates(o) :
            LET r == ApiPaypalOrders(Store, req)
            IN IF o \in DOMAIN orders THEN r.db = Store ELSE CreatedRow(r.db, o)
  /\ \A req \in {x \in AcceptedOrderDetails : ~x.dbfail} :
       LET o == Uuid4Order(orders)
       IN CreatedRow(OrderDetails(Store, req, o, env).db, o)

\* api_paypal_orders was served for an order that is paid and captured at
\* the captured amount
C28_Witness ==
  /\ last.op = "api_paypal_orders" /\ last.outcome = "created"
  /\ \E o \in DOMAIN orders :
       /\ orders[o].payment_status = "paid" /\ orders[o].status = "captured"
       /\ orders[o].total_price = 90

====
